---- MODULE Spec2Model ----
(***************************************************************************)
(* A model of the OpenWillis utility routines:                             *)
(*   gps_util.py                 gps_quality, gps_stats, traj_smooth_ends, *)
(*                               day_night_split                           *)
(*   diarization_hf_utils.py     process_chunk_hf, call_diarization_hf     *)
(*   speech_transcribe_cloud.py  read_kwargs                               *)
(*                                                                         *)
(* Numbers.  Timestamps are integer seconds.  Coordinates are floats in    *)
(* the program; here they are exact rationals <<n, d>> (d > 0, lowest      *)
(* terms), so that an interpolated point can be compared exactly with the  *)
(* segment it was interpolated on.                                         *)
(* Time zones.  A time zone is a fixed offset from UTC in seconds; zones   *)
(* with daylight-saving transitions are outside the model.                 *)
(***************************************************************************)
EXTENDS Integers, Sequences, FiniteSets, TLC

VARIABLES
    \* gps_quality
    data, num_hours, hour, quality_check, q_pc,
    \* gps_stats, traj_smooth_ends, day_night_split
    traj, frequency, timezone, df, pc, i, start_stamp, end_stamp, window,
    no_windows, start_time, end_time, index_rows, current_traj,
    obs_dur, obs_dur_day, obs_dur_night,
    \* call_diarization_hf
    prompts, input_param, results, retries, d_pc,
    \* read_kwargs
    kwargs, k_input_param, k_pc

qvars == <<data, num_hours, hour, quality_check, q_pc>>
gvars == <<traj, frequency, timezone, df, pc, i, start_stamp, end_stamp, window,
           no_windows, start_time, end_time, index_rows, current_traj,
           obs_dur, obs_dur_day, obs_dur_night>>
dvars == <<prompts, input_param, results, retries, d_pc>>
kvars == <<kwargs, k_input_param, k_pc>>
vars == <<qvars, gvars, dvars, kvars>>

\* A local that has not been assigned.
Unset == "unset"

(***************************************************************************)
(* Bounds of the model.                                                    *)
(***************************************************************************)
\* gps_quality: the data covers at most this many one-hour buckets.
MaxHours == 3
\* A trajectory has at most this many rows.
MaxRows == 3
\* The timestamps of a trajectory are taken from a grid of this many points.
GridLen == 6
\* call_diarization_hf: chunk indexes are 0 .. MaxChunks - 1.
MaxChunks == 3

(***************************************************************************)
(* Program constants.                                                      *)
(***************************************************************************)
HourSeconds == 3600
HoursPerDay == 24
DaySeconds == HoursPerDay * HourSeconds

\* The first grid point: 1970-01-31 00:00:00 UTC, so that two days of data
\* cross a month boundary.
Base == 30 * DaySeconds
HourlyStep == HourSeconds \div 2
DailyStep == 6 * HourSeconds

(***************************************************************************)
(* Arithmetic helpers.                                                     *)
(***************************************************************************)
Abs(x) == IF x < 0 THEN -x ELSE x
Min(a, b) == IF a <= b THEN a ELSE b
Max(a, b) == IF a >= b THEN a ELSE b

RECURSIVE GCD(_, _)
GCD(a, b) == IF b = 0 THEN a ELSE GCD(b, a % b)

\* The rational n/d (d # 0) in lowest terms with a positive denominator.
Rat(n, d) ==
    LET s == IF d < 0 THEN -1 ELSE 1
        g == GCD(Abs(n), Abs(d))
    IN  <<(s * n) \div g, (s * d) \div g>>
RInt(x) == <<x, 1>>
RAdd(a, b) == Rat(a[1] * b[2] + b[1] * a[2], a[2] * b[2])
RSub(a, b) == Rat(a[1] * b[2] - b[1] * a[2], a[2] * b[2])
RMul(a, b) == Rat(a[1] * b[1], a[2] * b[2])
RLe(a, b) == a[1] * b[2] <= b[1] * a[2]

RECURSIVE SumSeq(_)
SumSeq(s) == IF s = <<>> THEN 0 ELSE Head(s) + SumSeq(Tail(s))

(***************************************************************************)
(* gps_quality (gps_util.py 16-52).                                        *)
(* data.timestamp is a sequence of timestamps, in the order of the rows.   *)
(***************************************************************************)
\* The number of observations an hour must exceed to count (line 48).
HourObsThreshold == 60

\* The per-hour observation counts the data sets are built from.
ObsCounts == {0, 9, 10, 11, 60, 61}
\* The spacing of the observations inside an hour: 61 of them fit in it.
ObsSpacing == HourSeconds \div 61

RECURSIVE HourStamps(_, _)
\* n timestamps inside hour h, in increasing order.
HourStamps(h, n) ==
    IF n = 0 THEN <<>>
    ELSE Append(HourStamps(h, n - 1), Base + h * HourSeconds + (n - 1) * ObsSpacing)

RECURSIVE DataOf(_, _)
\* The timestamps of hours 0 .. h - 1, counts[k] of them in hour k.
DataOf(counts, h) ==
    IF h = 0 THEN <<>>
    ELSE DataOf(counts, h - 1) \o HourStamps(h - 1, counts[h - 1])

\* The data sets: sorted, non-empty, the first observation in hour 0.
DataSets ==
    UNION {{DataOf(c, h) : c \in {f \in [0 .. h - 1 -> ObsCounts] : f[0] >= 1}}
           : h \in 1 .. MaxHours}

\* hour_data.shape[0] (lines 44-47): the rows of the hour's bucket.
hour_data_rows(d, start, h) ==
    Len(SelectSeq(d, LAMBDA t : t >= start + h * HourSeconds
                               /\ t < start + (h + 1) * HourSeconds))

\* Lines 35-39, 42.
QualityStart ==
    /\ q_pc = "start"
    /\ LET q_end_time == data[Len(data)]
           q_start_time == data[1]
       IN  num_hours' = ((q_end_time - q_start_time) \div HourSeconds) + 1
    /\ quality_check' = 0
    /\ hour' = 0
    /\ q_pc' = "loop"
    /\ UNCHANGED <<data, gvars, dvars, kvars>>

\* Lines 48-49: whether the bucket counts towards quality_check.
HourCounts(n) == n > HourObsThreshold

\* One iteration of the loop of lines 43-49.
QualityHour ==
    /\ q_pc = "loop"
    /\ hour < num_hours
    /\ quality_check' =
          IF HourCounts(hour_data_rows(data, data[1], hour))
          THEN quality_check + 1 ELSE quality_check
    /\ hour' = hour + 1
    /\ UNCHANGED <<data, num_hours, q_pc, gvars, dvars, kvars>>

\* Lines 51-52: quality_check < 0.5 * num_hours raises ValueError.
QualityEnd ==
    /\ q_pc = "loop"
    /\ hour = num_hours
    /\ q_pc' = IF 2 * quality_check < num_hours THEN "raised" ELSE "returned"
    /\ UNCHANGED <<data, num_hours, hour, quality_check, gvars, dvars, kvars>>

QInitIdle ==
    /\ data = <<>> /\ num_hours = 0 /\ hour = 0 /\ quality_check = 0
    /\ q_pc = "idle"

(***************************************************************************)
(* Calendar: stamp2datetime and datetime2stamp (imported at line 10).      *)
(* stamp2datetime gives the local [year, month, day, hour, minute, second] *)
(* of a timestamp; datetime2stamp is the timestamp of such a list.  The    *)
(* list is a sequence here: Python's time_list[k] is time_list[k + 1].     *)
(***************************************************************************)
\* The proleptic Gregorian date <<year, month, day>> of day z since 1970-01-01.
CivilFromDays(z) ==
    LET z2  == z + 719468
        era == z2 \div 146097
        doe == z2 - era * 146097
        yoe == (doe - doe \div 1460 + doe \div 36524 - doe \div 146096) \div 365
        doy == doe - (365 * yoe + yoe \div 4 - yoe \div 100)
        mp  == (5 * doy + 2) \div 153
        d   == doy - (153 * mp + 2) \div 5 + 1
        m   == IF mp < 10 THEN mp + 3 ELSE mp - 9
        y   == yoe + era * 400 + (IF m <= 2 THEN 1 ELSE 0)
    IN  <<y, m, d>>

\* The day since 1970-01-01 of the date y-m-d.
DaysFromCivil(y, m, d) ==
    LET y2  == IF m <= 2 THEN y - 1 ELSE y
        era == y2 \div 400
        yoe == y2 - era * 400
        doy == (153 * (IF m > 2 THEN m - 3 ELSE m + 9) + 2) \div 5 + d - 1
        doe == yoe * 365 + yoe \div 4 - yoe \div 100 + doy
    IN  era * 146097 + doe - 719468

stamp2datetime(stamp, tz) ==
    LET loc == stamp + tz
        ymd == CivilFromDays(loc \div DaySeconds)
        sod == loc % DaySeconds
    IN  <<ymd[1], ymd[2], ymd[3],
          sod \div HourSeconds, (sod % HourSeconds) \div 60, sod % 60>>

datetime2stamp(time_list, tz) ==
    DaysFromCivil(time_list[1], time_list[2], time_list[3]) * DaySeconds
        + time_list[4] * HourSeconds + time_list[5] * 60 + time_list[6] - tz

(***************************************************************************)
(* Trajectories.  A row is a function on the columns 0 .. 7 of the         *)
(* trajectory array: 0 the segment's kind (1 flight, 2 pause), 1-2 the     *)
(* start coordinates, 3 the start timestamp, 4-5 the end coordinates, 6    *)
(* the end timestamp, 7 observed (1) or imputed (0).  traj is the sequence *)
(* of rows: Python's traj[k] is traj[k + 1].                               *)
(***************************************************************************)
\* The trajectory's k-th position: a flight moves on by (6, 12).
Position(k) == <<RInt(6 * k), RInt(12 * k)>>

MkRow(a, b, pos, mv, obs, step) ==
    [c \in 0 .. 7 |->
        CASE c = 0 -> IF mv = 1 THEN 1 ELSE 2
          [] c = 1 -> Position(pos)[1]
          [] c = 2 -> Position(pos)[2]
          [] c = 3 -> Base + a * step
          [] c = 4 -> Position(pos + mv)[1]
          [] c = 5 -> Position(pos + mv)[2]
          [] c = 6 -> Base + b * step
          [] OTHER -> obs]

\* The choices of one row starting at grid point lo or later.
RowChoices(lo) ==
    {q \in (lo .. GridLen - 2) \X (0 .. GridLen - 1) \X {0, 1} \X {0, 1} : q[2] > q[1]}

RECURSIVE ChoicesFrom(_, _)
\* The choices of n rows from grid point lo on: each row has a positive
\* duration and starts no earlier than the row before it ends (a gap is
\* allowed).
ChoicesFrom(lo, n) ==
    IF n = 0 THEN {<<>>}
    ELSE UNION {{<<q>> \o rest : rest \in ChoicesFrom(q[2], n - 1)}
                : q \in RowChoices(lo)}

\* The choices of a trajectory: 1 .. MaxRows rows.
TrajChoices == UNION {ChoicesFrom(0, n) : n \in 1 .. MaxRows}

\* The number of flights among the first k rows chosen.
Flights(c, k) == Cardinality({j \in 1 .. k : c[j][3] = 1})

\* The trajectory of the choices c: each row starts where the row before it
\* ended.
BuildTraj(c, step) ==
    [k \in 1 .. Len(c) |->
        MkRow(c[k][1], c[k][2], Flights(c, k - 1), c[k][3], c[k][4], step)]

\* The time zones of the model: UTC, UTC-05:00 and UTC+05:30.
TimeZones == {0, -5 * HourSeconds, 5 * HourSeconds + 1800}

(***************************************************************************)
(* traj_smooth_ends (gps_util.py 222-275).                                 *)
(***************************************************************************)
\* (1 - p) * a + p * b, as lines 257-261 and 268-272 write it.
Lerp(p, a, b) == RAdd(RMul(RSub(RInt(1), p), a), RMul(p, b))

\* sum(index_rows): the number of selected rows.
MaskCount(mask) == Cardinality({k \in DOMAIN mask : mask[k]})

RECURSIVE MaskSelect(_, _, _)
\* traj[index_rows, :], a copy of the selected rows (line 248).
MaskSelect(t, mask, k) ==
    IF k > Len(t) THEN <<>>
    ELSE (IF mask[k] THEN <<t[k]>> ELSE <<>>) \o MaskSelect(t, mask, k + 1)

\* Lines 251-262: the only selected row.
SmoothSingle(r, st, et) ==
    LET sp0 == Rat(st - r[3], r[6] - r[3])
        sp1 == Rat(et - r[3], r[6] - r[3])
        x0 == r[1]
        y0 == r[2]
        x1 == r[4]
        y1 == r[5]
    IN  [r EXCEPT ![1] = Lerp(sp0, x0, x1),
                  ![2] = Lerp(sp0, y0, y1),
                  ![3] = st,
                  ![4] = Lerp(sp1, x0, x1),
                  ![5] = Lerp(sp1, y0, y1),
                  ![6] = et]

\* SmoothFirst with the weight of the single-row branch (line 251) used in
\* the expression of line 268.
SmoothFirst_SingleRowWeight(r, st) ==
    LET sp0 == Rat(st - r[3], r[6] - r[3])
    IN  [r EXCEPT ![1] = Lerp(sp0, r[4], r[1]),
                  ![2] = Lerp(sp0, r[5], r[2]),
                  ![3] = st]

\* Lines 266, 268-270: the first of several selected rows.
SmoothFirst(r, st) ==
    LET sp0 == Rat(r[6] - st, r[6] - r[3])
    IN  [r EXCEPT ![1] = Lerp(sp0, r[4], r[1]),
                  ![2] = Lerp(sp0, r[5], r[2]),
                  ![3] = st]

\* SmoothLast without line 273: the end timestamp is left as it was.
SmoothLast_EndNotSet(r, et) ==
    LET sp1 == Rat(et - r[3], r[6] - r[3])
    IN  [r EXCEPT ![4] = Lerp(sp1, r[1], r[4]),
                  ![5] = Lerp(sp1, r[2], r[5])]

\* Lines 267, 271-273: the last of several selected rows.
SmoothLast(r, et) ==
    LET sp1 == Rat(et - r[3], r[6] - r[3])
    IN  [r EXCEPT ![4] = Lerp(sp1, r[1], r[4]),
                  ![5] = Lerp(sp1, r[2], r[5]),
                  ![6] = et]

\* Called with at least one selected row.
traj_smooth_ends(t, st, et, mask) ==
    LET ct == MaskSelect(t, mask, 1)
        n  == Len(ct)
    IN  IF MaskCount(mask) = 1
        THEN <<SmoothSingle(ct[1], st, et)>>
        ELSE [k \in 1 .. n |->
                 IF k = 1 THEN SmoothFirst(ct[1], st)
                 ELSE IF k = n THEN SmoothLast(ct[n], et)
                 ELSE ct[k]]

(***************************************************************************)
(* day_night_split (gps_util.py 278-314).                                  *)
(***************************************************************************)
\* Lines 303-308: the local hour of each row's midpoint.  The midpoint may
\* be a half second; the hour of a timestamp is that of its whole second.
MidHours(ct, tz) ==
    [k \in 1 .. Len(ct) |-> stamp2datetime((ct[k][3] + ct[k][6]) \div 2, tz)[4]]

\* Line 311.
DayIndex(hours) == [k \in DOMAIN hours |-> hours[k] >= 8 /\ hours[k] <= 19]

\* NightIndex as the evening hours only, the hours before 08:00 forgotten.
NightIndex_EveningOnly(hours, day_index) == [k \in DOMAIN day_index |-> hours[k] >= 20]

\* Line 312: np.logical_not(day_index).
NightIndex(hours, day_index) == [k \in DOMAIN day_index |-> ~day_index[k]]

day_night_split(ct, tz) ==
    LET hours == MidHours(ct, tz)
        day_index == DayIndex(hours)
    IN  <<day_index, NightIndex(hours, day_index)>>

(***************************************************************************)
(* gps_stats (gps_util.py 89-219).                                         *)
(***************************************************************************)
\* res for a window without rows is laid out on df.columns; the statistics
\* columns are named by the rows of lines 194-216.
Columns(freq) ==
    IF freq = "hourly"
    THEN <<"year", "month", "day", "hour", "observed_time", "dist_travelled",
           "home_time", "home_max_dist">>
    ELSE <<"year", "month", "day", "observed_time", "observed_time_day",
           "observed_time_night", "dist_travelled", "home_time", "home_max_dist">>

\* pd.NA.
NA == "NA"

\* Lines 128-130.
WindowLength(freq) ==
    IF freq = "daily" THEN HourSeconds * HoursPerDay ELSE HourSeconds

\* Lines 117-126: the timestamp floored to the local hour (hourly) or to the
\* local midnight (daily) through its date list.
FloorStamp(stamp, freq, tz) ==
    LET time_list == stamp2datetime(stamp, tz)
        zeroed == IF freq = "hourly"
                  THEN [time_list EXCEPT ![5] = 0, ![6] = 0]
                  ELSE [time_list EXCEPT ![4] = 0, ![5] = 0, ![6] = 0]
    IN  datetime2stamp(zeroed, tz)

\* NoWindows rounded up: a last, partial window is counted.
NoWindows_RoundUp(start, end, w) == (end - start) \div w + 1

\* Line 132.
NoWindows(start, end, w) == (end - start) \div w

\* Line 141.
IndexRows(t, st, et) == [k \in 1 .. Len(t) |-> t[k][3] < et /\ t[k][6] > st]

\* df.append(row, ignore_index=True): a NEW frame with the row added; df
\* itself is left as it was.
DfAppend(frame, row) == Append(frame, row)

\* Lines 152-154, and 160-170 with index the day or night index.
ObservedTime(ct, index) ==
    SumSeq([k \in 1 .. Len(ct) |->
               IF index[k] /\ ct[k][7] = 1 THEN ct[k][6] - ct[k][3] ELSE 0])

AllRows(ct) == [k \in 1 .. Len(ct) |-> TRUE]

\* Lines 114-132.  obs_traj and home_coords (lines 114-115) are read at
\* lines 185-186 only, which no call reaches (see StatsWindow); locate_home
\* belongs to the mobility library and is taken to return.
StatsSetup ==
    /\ pc = "start"
    /\ start_stamp' = FloorStamp(traj[1][3], frequency, timezone)
    /\ end_stamp' = FloorStamp(traj[Len(traj)][6], frequency, timezone)
    /\ window' = WindowLength(frequency)
    /\ no_windows' = NoWindows(start_stamp', end_stamp', window')
    /\ i' = 0
    /\ pc' = "loop"
    /\ UNCHANGED <<traj, frequency, timezone, df, start_time, end_time, index_rows,
                   current_traj, obs_dur, obs_dur_day, obs_dur_night>>
    /\ UNCHANGED <<qvars, dvars, kvars>>

\* One iteration of the loop of lines 134-217.  A window without rows
\* builds its row of missing values and goes on to the next window; the
\* frame df.append returns is dropped.  A window with rows smooths them and
\* sums the observed times, and then evaluates great_circle_dist (line 174),
\* a name the module neither defines nor imports: NameError.
StatsWindow ==
    /\ pc = "loop"
    /\ i < no_windows
    /\ LET st == start_stamp + i * window
           et == start_stamp + (i + 1) * window
           current_time_list == stamp2datetime(st, timezone)
           mask == IndexRows(traj, st, et)
       IN  /\ start_time' = st
           /\ end_time' = et
           /\ index_rows' = mask
           /\ IF MaskCount(mask) = 0
              THEN LET res == SubSeq(current_time_list, 1, 4)
                                \o [k \in 1 .. Len(Columns(frequency)) - 4 |-> NA]
                       appended == DfAppend(df, res)
                   IN  /\ df' = df
                       /\ i' = i + 1
                       /\ pc' = "loop"
                       /\ UNCHANGED <<current_traj, obs_dur, obs_dur_day, obs_dur_night>>
              ELSE LET ct == traj_smooth_ends(traj, st, et, mask)
                       dn == day_night_split(ct, timezone)
                   IN  /\ current_traj' = ct
                       /\ obs_dur' = ObservedTime(ct, AllRows(ct))
                       /\ obs_dur_day' =
                             IF frequency = "daily" THEN ObservedTime(ct, dn[1])
                             ELSE obs_dur_day
                       /\ obs_dur_night' =
                             IF frequency = "daily" THEN ObservedTime(ct, dn[2])
                             ELSE obs_dur_night
                       /\ pc' = "NameError"
                       /\ UNCHANGED <<df, i>>
    /\ UNCHANGED <<traj, frequency, timezone, start_stamp, end_stamp, window, no_windows>>
    /\ UNCHANGED <<qvars, dvars, kvars>>

\* Line 219.
StatsReturn ==
    /\ pc = "loop"
    /\ i = no_windows
    /\ pc' = "returned"
    /\ UNCHANGED <<traj, frequency, timezone, df, i, start_stamp, end_stamp, window,
                   no_windows, start_time, end_time, index_rows, current_traj,
                   obs_dur, obs_dur_day, obs_dur_night>>
    /\ UNCHANGED <<qvars, dvars, kvars>>

GLocalsInit ==
    /\ df = <<>> /\ i = 0 /\ start_stamp = 0 /\ end_stamp = 0 /\ window = 0
    /\ no_windows = 0 /\ current_traj = <<>>
    /\ obs_dur = Unset /\ obs_dur_day = Unset /\ obs_dur_night = Unset

GInitIdle ==
    /\ traj = <<>> /\ frequency = "hourly" /\ timezone = 0 /\ pc = "idle"
    /\ start_time = 0 /\ end_time = 0 /\ index_rows = <<>>
    /\ GLocalsInit

\* traj_smooth_ends called on its own, for any window between two hour marks.
SmoothCall ==
    /\ pc = "smooth"
    /\ MaskCount(index_rows) >= 1
    /\ current_traj' = traj_smooth_ends(traj, start_time, end_time, index_rows)
    /\ pc' = "smoothed"
    /\ UNCHANGED <<traj, frequency, timezone, df, i, start_stamp, end_stamp, window,
                   no_windows, start_time, end_time, index_rows,
                   obs_dur, obs_dur_day, obs_dur_night>>
    /\ UNCHANGED <<qvars, dvars, kvars>>

\* The hour marks a window of SmoothCall starts and ends at.
HourMarks == {Base + k * HourSeconds : k \in 0 .. (GridLen * HourlyStep) \div HourSeconds}

(***************************************************************************)
(* process_chunk_hf and call_diarization_hf (diarization_hf_utils.py).     *)
(* prompts and results are functions from chunk indexes to texts.          *)
(***************************************************************************)
\* max_retries of the decorator of process_chunk_hf (line 14).
MaxRetries == 3

PromptTexts == {"speaker0: hi", "speaker1: yes"}
PromptDicts == UNION {[S -> PromptTexts] : S \in SUBSET (0 .. MaxChunks - 1)}
EndpointName == "endpoint"

\* Lines 38-65: what the model generates for a prompt.
ModelOutput(prompt, param) ==
    <<IF param.quantized THEN "WillisDiarize-GPTQ" ELSE "WillisDiarize", prompt>>

\* Lines 36-67, one call of the undecorated function: the arguments are
\* unpacked into three names, which raises ValueError for any other length.
process_chunk_hf(args) ==
    IF Len(args) # 3
    THEN [raised |-> TRUE, value |-> "ValueError"]
    ELSE [raised |-> FALSE, value |-> <<args[1], ModelOutput(args[2], args[3])>>]

\* Lines 98 and 103: the tuple handed to process_chunk_hf for a chunk.
ChunkArgs(idx) == <<idx, prompts[idx], input_param, EndpointName>>

\* exponential_backoff_decorator (diarization_utils, not among the sources):
\* a failed call is retried until max_retries retries have been made, and
\* then the failure is raised.
RetriesLeft(r) == r < MaxRetries

EmptyDict == [k \in {} |-> 0]

\* Lines 95-97 and 102: the results are empty; the pool is created with
\* len(prompts) processes, and Pool raises ValueError for fewer than one.
DiarCall ==
    /\ d_pc = "start"
    /\ results' = EmptyDict
    /\ retries' = [idx \in DOMAIN prompts |-> 0]
    /\ d_pc' = IF input_param.parallel_processing = 1
               THEN (IF Cardinality(DOMAIN prompts) < 1 THEN "ValueError" ELSE "pool")
               ELSE "seq"
    /\ UNCHANGED <<prompts, input_param, qvars, gvars, kvars>>

\* The smallest chunk index without a result: sorted(prompts.keys()).
NextIdx == CHOOSE idx \in DOMAIN prompts \ DOMAIN results :
              \A j \in DOMAIN prompts \ DOMAIN results : idx <= j

\* One attempt at chunk idx, by the sequential loop or by a pool worker.
\* next_pc is the state once every chunk has its result.
Attempt(idx, next_pc) ==
    LET r == process_chunk_hf(ChunkArgs(idx))
    IN  IF r.raised
        THEN IF RetriesLeft(retries[idx])
             THEN /\ retries' = [retries EXCEPT ![idx] = @ + 1]
                  /\ UNCHANGED <<results, d_pc>>
             ELSE /\ d_pc' = "raised"
                  /\ UNCHANGED <<results, retries>>
        ELSE /\ results' = [k \in DOMAIN results \cup {idx} |->
                               IF k = idx THEN r.value[2] ELSE results[k]]
             /\ d_pc' = IF DOMAIN results' = DOMAIN prompts THEN next_pc ELSE d_pc
             /\ UNCHANGED retries

\* Lines 102-103: the sequential loop, in sorted index order.
SeqAttempt ==
    /\ d_pc = "seq"
    /\ DOMAIN results # DOMAIN prompts
    /\ Attempt(NextIdx, "seq")
    /\ UNCHANGED <<prompts, input_param, qvars, gvars, kvars>>

\* Line 105, after the sequential loop.
SeqReturn ==
    /\ d_pc = "seq"
    /\ DOMAIN results = DOMAIN prompts
    /\ d_pc' = "returned"
    /\ UNCHANGED <<prompts, input_param, results, retries, qvars, gvars, kvars>>

\* Lines 98-100: pool.map; the workers take their chunks in any order, and
\* the list of (index, output) pairs becomes the dictionary returned.
PoolAttempt ==
    /\ d_pc = "pool"
    /\ \E idx \in DOMAIN prompts \ DOMAIN results : Attempt(idx, "returned")
    /\ UNCHANGED <<prompts, input_param, qvars, gvars, kvars>>

DInitIdle ==
    /\ prompts = EmptyDict /\ input_param = EmptyDict /\ results = EmptyDict
    /\ retries = EmptyDict /\ d_pc = "idle"

(***************************************************************************)
(* read_kwargs (speech_transcribe_cloud.py 38-67).                         *)
(***************************************************************************)
\* The options the docstring of speech_transcription_cloud lists (80-97).
Options == {"model", "language", "region", "job_name", "ShowSpeakerLabels",
            "MaxSpeakerLabels", "c_scale", "access_key", "secret_key"}
\* A keyword that is no option.
OtherKeys == {"verbose"}
\* The value a caller supplies for a keyword.
CallerValue(k) == <<"caller", k>>
KwargsDicts == {[k \in S |-> CallerValue(k)] : S \in SUBSET (Options \cup OtherKeys)}

\* kwargs.get(key, default).
KwGet(kw, key, default) == IF key \in DOMAIN kw THEN kw[key] ELSE default

\* Line 56.
ModelDefault == "pyannote"

\* Lines 55-67.
read_kwargs(kw) ==
    [model |-> KwGet(kw, "model", ModelDefault),
     language |-> KwGet(kw, "language", "en-US"),
     region |-> KwGet(kw, "region", "us-east-1"),
     job_name |-> KwGet(kw, "job_name", "transcribe_job_01"),
     ShowSpeakerLabels |-> KwGet(kw, "ShowSpeakerLabels", TRUE),
     MaxSpeakerLabels |-> KwGet(kw, "MaxSpeakerLabels", 2),
     c_scale |-> KwGet(kw, "c_scale", ""),
     access_key |-> KwGet(kw, "access_key", ""),
     secret_key |-> KwGet(kw, "secret_key", "")]

\* Line 109: speech_transcription_cloud reads its keywords.
ReadKwargs ==
    /\ k_pc = "start"
    /\ k_input_param' = read_kwargs(kwargs)
    /\ k_pc' = "done"
    /\ UNCHANGED <<kwargs, qvars, gvars, dvars>>

KInitIdle == kwargs = EmptyDict /\ k_input_param = EmptyDict /\ k_pc = "idle"

(***************************************************************************)
(* Specifications.                                                         *)
(***************************************************************************)
QInit ==
    /\ data \in DataSets
    /\ num_hours = 0 /\ hour = 0 /\ quality_check = 0 /\ q_pc = "start"
    /\ GInitIdle /\ DInitIdle /\ KInitIdle
QNext == QualityStart \/ QualityHour \/ QualityEnd
SpecQuality == QInit /\ [][QNext]_vars

GInit ==
    /\ frequency \in {"hourly", "daily"}
    /\ timezone \in TimeZones
    /\ \E c \in TrajChoices :
          traj = BuildTraj(c, IF frequency = "hourly" THEN HourlyStep ELSE DailyStep)
    /\ pc = "start"
    /\ start_time = 0 /\ end_time = 0 /\ index_rows = <<>>
    /\ GLocalsInit
    /\ QInitIdle /\ DInitIdle /\ KInitIdle
GNext == StatsSetup \/ StatsWindow \/ StatsReturn
SpecStats == GInit /\ [][GNext]_vars

SInit ==
    /\ frequency = "hourly"
    /\ timezone = 0
    /\ \E c \in TrajChoices : traj = BuildTraj(c, HourlyStep)
    /\ start_time \in HourMarks
    /\ end_time \in {m \in HourMarks : m > start_time}
    /\ index_rows = IndexRows(traj, start_time, end_time)
    /\ pc = "smooth"
    /\ GLocalsInit
    /\ QInitIdle /\ DInitIdle /\ KInitIdle
SNext == SmoothCall
SpecSmooth == SInit /\ [][SNext]_vars

DInit ==
    /\ prompts \in PromptDicts
    /\ input_param \in [parallel_processing : {0, 1}, quantized : BOOLEAN]
    /\ results = EmptyDict /\ retries = EmptyDict /\ d_pc = "start"
    /\ QInitIdle /\ GInitIdle /\ KInitIdle
DNext == DiarCall \/ SeqAttempt \/ SeqReturn \/ PoolAttempt
SpecDiar == DInit /\ [][DNext]_vars

KInit ==
    /\ kwargs \in KwargsDicts
    /\ k_input_param = EmptyDict /\ k_pc = "start"
    /\ QInitIdle /\ GInitIdle /\ DInitIdle
KNext == ReadKwargs
SpecKwargs == KInit /\ [][KNext]_vars

(***************************************************************************)
(* The claims.                                                             *)
(***************************************************************************)
\* The observations of the one-hour bucket h counted from the first timestamp.
BucketSize(h) ==
    Cardinality({k \in 1 .. Len(data) :
                    /\ data[k] >= data[1] + h * 3600
                    /\ data[k] < data[1] + (h + 1) * 3600})

\* C1: gps_quality splits the span into floor((last - first) / 3600) + 1
\* one-hour buckets from the first timestamp, counts a bucket as adequately
\* sampled when it holds at least 10 observations, and raises ValueError
\* exactly when fewer than half of the buckets are adequately sampled.
C1_QualityRaisesBelowHalfOfTen ==
    q_pc \in {"raised", "returned"} =>
        LET nh == ((data[Len(data)] - data[1]) \div 3600) + 1
            adequate == Cardinality({h \in 0 .. nh - 1 : BucketSize(h) >= 10})
        IN  /\ num_hours = nh
            /\ (q_pc = "raised") <=> (2 * adequate < nh)

\* The date columns of window k of gps_stats.
WindowDate(k) == stamp2datetime(start_stamp + k * window, timezone)

\* C2: for an hourly or daily frequency and a non-empty trajectory, gps_stats
\* returns the frame with exactly one row added per window, in chronological
\* order; it never returns the frame without them and never aborts before
\* the last window.
C2_OneRowPerWindow ==
    pc \in {"returned", "NameError"} =>
        /\ pc = "returned"
        /\ Len(df) = no_windows
        /\ \A k \in 1 .. Len(df) : SubSeq(df[k], 1, 3) = SubSeq(WindowDate(k - 1), 1, 3)

\* C3: the sub-trajectory traj_smooth_ends returns starts exactly at
\* start_time and ends exactly at end_time, for one selected row and for
\* several.
C3_SmoothedEndsAligned ==
    pc = "smoothed" =>
        /\ Len(current_traj) = MaskCount(index_rows)
        /\ current_traj[1][3] = start_time
        /\ current_traj[Len(current_traj)][6] = end_time

\* C3 witness: several rows were selected, the first starting and the last
\* ending off the window's boundaries.
C3_Witness ==
    /\ pc = "smoothed"
    /\ Len(current_traj) >= 2
    /\ MaskSelect(traj, index_rows, 1)[1][3] # start_time
    /\ MaskSelect(traj, index_rows, 1)[Len(current_traj)][6] # end_time

\* The position at time t of linear motion along the row o.
PointAt(o, t) ==
    LET w == Rat(t - o[3], o[6] - o[3])
    IN  <<RAdd(o[1], RMul(w, RSub(o[4], o[1]))), RAdd(o[2], RMul(w, RSub(o[5], o[2])))>>

\* The coordinate c lies between the coordinates a and b.
Between(c, a, b) == (RLe(a, c) /\ RLe(c, b)) \/ (RLe(b, c) /\ RLe(c, a))

\* The row r is the row o clipped: its interval lies in o's, and its start
\* and end points are points of o's segment (weights in [0, 1]).
Clipped(o, r) ==
    /\ o[3] <= r[3] /\ r[3] <= r[6] /\ r[6] <= o[6]
    /\ <<r[1], r[2]>> = PointAt(o, r[3])
    /\ <<r[4], r[5]>> = PointAt(o, r[6])
    /\ Between(r[1], o[1], o[4]) /\ Between(r[2], o[2], o[5])
    /\ Between(r[4], o[1], o[4]) /\ Between(r[5], o[2], o[5])

\* C7, as claimed: every row selected for a window comes back clipped.
C7_SmoothingOnlyClips ==
    pc = "smoothed" =>
        LET orig == MaskSelect(traj, index_rows, 1)
        IN  \A k \in 1 .. Len(orig) : Clipped(orig[k], current_traj[k])

\* C7, amended: the rows between the first and the last come back as they
\* were; the first row's start is moved to start_time and the last row's end
\* to end_time, each to the point linear motion along the row gives for that
\* time; and a row comes back clipped exactly when it reaches the boundary it
\* is aligned to (the first row starts at or before start_time, the last row
\* ends at or after end_time).  A first row that starts after start_time, or
\* a last row that ends before end_time, is extended by extrapolation.
C7_SmoothingClipsOrExtends ==
    pc = "smoothed" =>
        LET orig == MaskSelect(traj, index_rows, 1)
            n == Len(orig)
        IN  /\ Len(current_traj) = n
            /\ \A k \in 1 .. n :
                  LET o == orig[k]
                      r == current_traj[k]
                  IN  /\ r[3] = (IF k = 1 THEN start_time ELSE o[3])
                      /\ r[6] = (IF k = n THEN end_time ELSE o[6])
                      /\ <<r[1], r[2]>> = PointAt(o, r[3])
                      /\ <<r[4], r[5]>> = PointAt(o, r[6])
                      /\ r[0] = o[0] /\ r[7] = o[7]
                      /\ Clipped(o, r) <=>
                            /\ (k = 1 => o[3] <= start_time)
                            /\ (k = n => o[6] >= end_time)

\* C7 witness: of several selected rows the first, a flight, starts before
\* the window and is clipped to it.
C7_Witness ==
    /\ pc = "smoothed"
    /\ Len(current_traj) >= 2
    /\ LET o == MaskSelect(traj, index_rows, 1)[1]
       IN  /\ o[3] < start_time
           /\ o[0] = 1
           /\ current_traj[1][1] # o[1]
           /\ Clipped(o, current_traj[1])

\* The overlap of the intervals [a, b] and [c, d].
Overlap(a, b, c, d) == Max(0, Min(b, d) - Max(a, c))

\* The observed time of the trajectory inside [lo, hi].
ObservedIn(lo, hi) ==
    SumSeq([k \in 1 .. Len(traj) |->
               IF traj[k][7] = 1 THEN Overlap(traj[k][3], traj[k][6], lo, hi) ELSE 0])

\* C4: in a daily window the observed day time is the observed duration in
\* the window between 08:00 and 20:00 local time, and the observed night
\* time the observed duration between 20:00 and 08:00.
C4_DayNightByClock ==
    (pc = "NameError" /\ frequency = "daily") =>
        LET day == ObservedIn(start_time + 8 * 3600, start_time + 20 * 3600)
            all == ObservedIn(start_time, end_time)
        IN  /\ obs_dur_day = day
            /\ obs_dur_night = all - day

\* The row C8 expects for window k.
MissingRow(k) ==
    IF frequency = "hourly"
    THEN SubSeq(WindowDate(k), 1, 4) \o <<NA, NA, NA, NA>>
    ELSE SubSeq(WindowDate(k), 1, 3) \o <<NA, NA, NA, NA, NA, NA>>

\* C8: for a window no segment overlaps, gps_stats records a row with the
\* window's year, month, day (and hour, hourly) and a missing value in every
\* statistic column, in the hourly and in the daily layout.
C8_EmptyWindowRow ==
    pc \in {"returned", "NameError"} =>
        \A k \in 0 .. no_windows - 1 :
            MaskCount(IndexRows(traj, start_stamp + k * window,
                                start_stamp + (k + 1) * window)) = 0
            => \E j \in 1 .. Len(df) : df[j] = MissingRow(k)

\* Each row starts when the row before it ends.
Contiguous(t) == \A k \in 1 .. Len(t) - 1 : t[k][6] = t[k + 1][3]

\* C9: for a contiguous trajectory, in every window 0 <= obs_dur <= the
\* window's length (3600 s hourly, 86400 s daily), and in a daily window the
\* day and night index sets are complementary, so that the observed day time
\* and the observed night time add up to the observed time.
C9_ObservedTimeBounded ==
    (pc = "NameError" /\ Contiguous(traj)) =>
        /\ 0 <= obs_dur
        /\ obs_dur <= (IF frequency = "hourly" THEN 3600 ELSE 86400)
        /\ frequency = "daily" =>
              LET dn == day_night_split(current_traj, timezone)
              IN  /\ \A k \in 1 .. Len(current_traj) : dn[1][k] # dn[2][k]
                  /\ obs_dur_day + obs_dur_night = obs_dur

\* C9 witness: a daily window of a contiguous trajectory with several rows,
\* observed by day and by night.
C9_Witness ==
    /\ pc = "NameError"
    /\ Contiguous(traj)
    /\ frequency = "daily"
    /\ Len(current_traj) >= 2
    /\ obs_dur_day > 0
    /\ obs_dur_night > 0
    /\ obs_dur < 86400

\* The timestamp t floored to the local hour or the local midnight.
Floored(t) ==
    LET w == IF frequency = "hourly" THEN 3600 ELSE 86400
    IN  t - ((t + timezone) % w)

\* C10: the windows are consecutive, equal-length and non-overlapping, from
\* the first start timestamp floored to the hour (hourly) or local midnight
\* (daily); none extends past the last end timestamp floored the same way,
\* so what lies at or after that stamp is in no window; and a trajectory
\* within one hour (or day) has no window.
C10_WindowsTileFlooredSpan ==
    pc # "start" =>
        LET w == IF frequency = "hourly" THEN 3600 ELSE 86400
            lo == Floored(traj[1][3])
            hi == Floored(traj[Len(traj)][6])
        IN  /\ window = w
            /\ start_stamp = lo
            /\ end_stamp = hi
            /\ no_windows >= 0
            /\ lo + no_windows * w <= hi
            /\ (lo = hi) => (no_windows = 0)
            /\ pc = "NameError" =>
                  /\ i < no_windows
                  /\ start_time = lo + i * w
                  /\ end_time = start_time + w
                  /\ end_time <= hi

\* C10 witness: a window is being processed and the trajectory goes on past
\* its floored end.
C10_Witness ==
    /\ pc = "NameError"
    /\ no_windows >= 2
    /\ traj[Len(traj)][6] > end_stamp

\* C5: call_diarization_hf returns a dictionary whose keys are the chunk
\* indexes of prompts and whose values are the model's outputs, the same
\* with a worker pool as with the sequential loop, an empty prompts included.
C5_ResultsForEveryChunk ==
    d_pc \in {"returned", "raised", "ValueError"} =>
        /\ d_pc = "returned"
        /\ DOMAIN results = DOMAIN prompts
        /\ \A idx \in DOMAIN prompts :
              results[idx] = ModelOutput(prompts[idx], input_param)

\* The defaults the docstring of speech_transcription_cloud documents.
DocumentedDefaults ==
    [model |-> "aws", language |-> "en-US", region |-> "us-east-1",
     job_name |-> "transcribe_job_01"]

\* C6: read_kwargs returns the caller's value for a supplied option and the
\* documented default for an omitted one (model 'aws', language 'en-US',
\* region 'us-east-1', job_name 'transcribe_job_01'); a keyword that is no
\* documented option never appears in the result.
C6_DocumentedDefaults ==
    k_pc = "done" =>
        /\ DOMAIN k_input_param \subseteq Options
        /\ \A o \in Options \cap DOMAIN kwargs : k_input_param[o] = kwargs[o]
        /\ \A o \in DOMAIN DocumentedDefaults \ DOMAIN kwargs :
              k_input_param[o] = DocumentedDefaults[o]

====
